---- MODULE Spec2Model ----
(***************************************************************************)
(* A model of the DBMS_REST application (Django + Django REST framework):  *)
(* the entity graph Database -> Table -> Column/Row -> Value of            *)
(* db/models.py, the column type checks of Column.ColumnTypes, and the     *)
(* request handlers of db/views.py and db/serializers.py.                  *)
(***************************************************************************)
EXTENDS Integers, Sequences, FiniteSets, TLC

(***************************************************************************)
(* Bounds of the model.                                                    *)
(***************************************************************************)
\* Longest string candidate handed to the type check ("a@a.aa" has 6).
MaxStrLen == 6

\* Requests served in one behaviour of Spec (from the empty store).
MaxRequests == 6

\* Requests served in one behaviour of SpecRows (from a store with columns).
MaxRowRequests == 2

\* Column creations served in one behaviour of SpecColumn.
MaxColumnRequests == 1

\* Requests served in one behaviour of SpecConc.
MaxConcRequests == 2

\* Requests served in one behaviour of SpecKinds.
MaxKindRequests == 2

\* Requests served in one behaviour of SpecSearch.
MaxSearchRequests == 3

VARIABLES
    databases,  \* stored Database rows: set of ids
    tables,     \* stored Table rows: set of [id, database]
    columns,    \* stored Column rows: set of [id, name, info, table]
    rows,       \* stored Row rows: set of [id, table]
    values,     \* stored Value rows: set of [id, info, column, row]
    nextId,     \* the next primary key of each model
    request,    \* the request in flight
    pending,    \* TRUE while `request` waits for its handler
    last,       \* outcome of the last handled request: [op, err, trace]
    served,     \* number of requests handled so far
    probe,      \* arguments of a direct call of a pure function
    creating,   \* a column creation of a second client, between its steps
    listed      \* the Rows of the last list response: Row id -> times listed

vars == <<databases, tables, columns, rows, values, nextId,
          request, pending, last, served, probe, creating, listed>>

(***************************************************************************)
(* JSON literals as Python sees them after json.loads: int, float, bool,   *)
(* None and str.  A float carries its value in tenths (1.0 is 10, 3.5 is   *)
(* 35); a str is the sequence of its characters.                           *)
(***************************************************************************)
IntLit(i) == [k |-> "int", n |-> i, s |-> <<>>]

FloatLit(tenths) == [k |-> "float", n |-> tenths, s |-> <<>>]

BoolLit(b) == [k |-> "bool", n |-> IF b THEN 1 ELSE 0, s |-> <<>>]

NoneLit == [k |-> "null", n |-> 0, s |-> <<>>]

StrLit(chars) == [k |-> "str", n |-> 0, s |-> chars]

\* isinstance(value, int): bool is a subclass of int in Python.
IsInstanceInt(value) == value.k \in {"int", "bool"}

IsInstanceFloat(value) == value.k = "float"

IsInstanceStr(value) == value.k = "str"

\* The numeric value of a number, in tenths.
Num10(value) == IF value.k = "float" THEN value.n ELSE 10 * value.n

\* Python's ==, as used by `value in available_values`.
PyEq(a, b) ==
    IF a.k \in {"int", "float", "bool"} /\ b.k \in {"int", "float", "bool"}
    THEN Num10(a) = Num10(b)
    ELSE a.k = b.k /\ a.s = b.s

(***************************************************************************)
(* The email pattern  \b[A-Za-z0-9._%+-]+@[A-Za-z0-9.-]+\.[A-Z|a-z]{2,}\b  *)
(* over the characters the model uses: a letter, "@", "." and "|".         *)
(***************************************************************************)
Alphabet == {"a", "@", ".", "|"}

\* The letters that occur in the model's strings.
Letters == {"a", "c", "d", "e", "f", "l", "m", "o", "t", "u"}

\* [A-Za-z0-9._%+-]
InLocalClass(c) == c \in Letters \cup {".", "_"}

\* [A-Za-z0-9.-]
InDomainClass(c) == c \in Letters \cup {"."}

\* [A-Z|a-z]: the "|" inside the brackets is a literal character.
InTldClass(c) == c \in Letters \cup {"|"}

\* \w, which decides where \b holds.
IsWordChar(c) == c \in Letters \cup {"_"}

\* re.fullmatch(email_regex, s) for a str s: some "@" at i and "." at j split
\* s into local part, domain and top-level part, and \b holds at both ends.
EmailFullMatch(s) ==
    /\ Len(s) > 0
    /\ IsWordChar(s[1])
    /\ IsWordChar(s[Len(s)])
    /\ \E i \in 2..Len(s), j \in 2..Len(s) :
          /\ i + 1 < j
          /\ j + 2 <= Len(s)
          /\ s[i] = "@"
          /\ s[j] = "."
          /\ \A p \in 1..(i - 1) : InLocalClass(s[p])
          /\ \A p \in (i + 1)..(j - 1) : InDomainClass(s[p])
          /\ \A p \in (j + 1)..Len(s) : InTldClass(s[p])

(***************************************************************************)
(* Column.ColumnTypes                                                      *)
(***************************************************************************)
ColumnTypeValues == {"int", "real", "char", "string", "email", "enum"}

has_value(value) == value \in ColumnTypeValues

\* The outcome of Column.ColumnTypes.validate: "ok" (returns None),
\* "TypeMismatch" (the ValidationError it raises) or "TypeError" (re.fullmatch
\* handed a value that is no str).  The five tests are tried in order and the
\* first that applies decides.
ColumnTypes_validate(column_type, value) ==
    IF column_type = "int" /\ ~IsInstanceInt(value) THEN "TypeMismatch"
    ELSE IF column_type = "real" /\ ~IsInstanceFloat(value) THEN "TypeMismatch"
    ELSE IF column_type = "char" /\ ~(IsInstanceStr(value) /\ Len(value.s) = 1)
         THEN "TypeMismatch"
    ELSE IF column_type = "string" /\ ~IsInstanceStr(value) THEN "TypeMismatch"
    ELSE IF column_type = "email"
         THEN IF ~IsInstanceStr(value) THEN "TypeError"
              ELSE IF ~EmailFullMatch(value.s) THEN "TypeMismatch"
              ELSE "ok"
    ELSE "ok"

\* COLUMN_DEFAULTS with the empty string as the default of a char column.
COLUMN_DEFAULTS_EmptyChar(type) ==
    CASE type = "int" -> IntLit(0)
      [] type = "real" -> FloatLit(0)
      [] type = "char" -> StrLit(<<>>)
      [] type = "string" -> StrLit(<<>>)
      [] type = "email" ->
            StrLit(<<"d", "e", "f", "a", "u", "l", "t", "@",
                     "d", "e", "f", "a", "u", "l", "t", ".", "c", "o", "m">>)

\* Column.COLUMN_DEFAULTS
COLUMN_DEFAULTS(type) ==
    CASE type = "int" -> IntLit(0)
      [] type = "real" -> FloatLit(0)
      [] type = "char" -> StrLit(<<"_">>)
      [] type = "string" -> StrLit(<<>>)
      [] type = "email" ->
            StrLit(<<"d", "e", "f", "a", "u", "l", "t", "@",
                     "d", "e", "f", "a", "u", "l", "t", ".", "c", "o", "m">>)

(***************************************************************************)
(* The empty store, and the record of the last request.                    *)
(***************************************************************************)
Idle == [op |-> "idle", err |-> "ok", trace |-> <<>>]

NoProbe == [column_type |-> "int", value |-> NoneLit]

\* No list response yet.
NoListing == [id \in {} |-> 0]

\* No column creation of a second client is under way.
NoCreation == [stage |-> "none", table |-> 0, name |-> "", data |-> <<>>]

EmptyStore ==
    /\ databases = {}
    /\ tables = {}
    /\ columns = {}
    /\ rows = {}
    /\ values = {}
    /\ nextId = [database |-> 1, table |-> 1, column |-> 1, row |-> 1, value |-> 1]

store == <<databases, tables, columns, rows, values, nextId>>

(***************************************************************************)
(* Column: the type descriptor `info` and its checks.                      *)
(*                                                                         *)
(* A descriptor document is the record of its recognised keys.  `type` is  *)
(* data.get("type", "no_type_provided_error") and `default` is             *)
(* data.get("default"): an absent key and a JSON null both read as None.   *)
(***************************************************************************)
Descriptor(type, default, has_ct, column_type, has_av, available_values) ==
    [type |-> type, default |-> default,
     has_column_type |-> has_ct, column_type |-> column_type,
     has_available_values |-> has_av, available_values |-> available_values]

\* info={"type": provided_type, "default": provided_default}
PlainInfo(type, default) == Descriptor(type, default, FALSE, "", FALSE, <<>>)

\* info={"type", "default", "available_values", "column_type"}
EnumInfo(type, default, available_values, column_type) ==
    Descriptor(type, default, TRUE, column_type, TRUE, available_values)

\* `for value in available_values: Column.ColumnTypes.validate(column_type, value)`:
\* the outcome of the first member that does not pass, "ok" when all pass.
RECURSIVE ValidateEach(_, _, _)
ValidateEach(column_type, available_values, i) ==
    IF i > Len(available_values) THEN "ok"
    ELSE LET e == ColumnTypes_validate(column_type, available_values[i])
         IN  IF e # "ok" THEN e
             ELSE ValidateEach(column_type, available_values, i + 1)

\* validate_value without the membership test of an enum column.
validate_value_NoEnumCheck(info, value) ==
    IF info.type # "enum" THEN ColumnTypes_validate(info.type, value)
    ELSE "ok"

\* Column.validate_value
validate_value(info, value) ==
    IF info.type # "enum" THEN ColumnTypes_validate(info.type, value)
    ELSE IF ~\E i \in 1..Len(info.available_values) :
                PyEq(value, info.available_values[i])
         THEN "NotInEnum"
         ELSE "ok"

\* Column.clean
Column_clean(data) ==
    IF ~has_value(data.type) THEN "UnsupportedType"
    ELSE IF data.default = NoneLit THEN "MissingDefault"
    ELSE IF data.type # "enum" THEN ColumnTypes_validate(data.type, data.default)
    ELSE IF ~data.has_available_values \/ ~data.has_column_type
         THEN "MissingEnumFields"
    ELSE IF ~has_value(data.column_type) \/ data.column_type = "enum"
         THEN "UnsupportedType"
    ELSE ValidateEach(data.column_type, data.available_values, 1)

\* Column.save up to the insert: full_clean runs clean() and then
\* validate_unique() for unique_together = ("name", "table").
Column_full_clean(cols, col) ==
    LET e == Column_clean(col.info)
    IN  IF e # "ok" THEN e
        ELSE IF \E c \in cols : c.id # col.id /\ c.name = col.name /\ c.table = col.table
             THEN "UniqueConstraintViolation"
        ELSE "ok"

\* The first statements of ColumnViewSet.perform_create: Table.objects.get
\* and the check that the Table has no Row.
perform_create_rows_check(table_pk) ==
    IF ~\E t \in tables : t.id = table_pk THEN "NotFound"
    ELSE IF \E r \in rows : r.table = table_pk THEN "ColumnsLocked"
    ELSE "ok"

\* ColumnViewSet.perform_create after the check of the Table's rows: the
\* outcome and, when it is "ok", the info handed to serializer.save().
perform_create_descriptor(data) ==
    LET provided_type == data.type
        provided_default == data.default
        Fail(e) == [err |-> e, info |-> data]
    IN
    IF ~has_value(provided_type) THEN Fail("UnsupportedType")
    ELSE IF provided_type # "enum"
         THEN LET default == IF provided_default = NoneLit
                             THEN COLUMN_DEFAULTS(provided_type)
                             ELSE provided_default
                  e == ColumnTypes_validate(provided_type, default)
              IN  IF e # "ok" THEN Fail(e)
                  ELSE [err |-> "ok", info |-> PlainInfo(provided_type, default)]
    ELSE IF ~data.has_available_values \/ ~data.has_column_type
         THEN Fail("MissingEnumFields")
    ELSE IF provided_default = NoneLit /\ Len(data.available_values) = 0
         THEN Fail("IndexError")
    ELSE LET default == IF provided_default = NoneLit
                        THEN data.available_values[1]
                        ELSE provided_default
             e == ValidateEach(data.column_type, data.available_values, 1)
         IN  IF ~has_value(data.column_type) \/ data.column_type = "enum"
             THEN Fail("UnsupportedType")
             ELSE IF e # "ok" THEN Fail(e)
             ELSE [err |-> "ok",
                   info |-> EnumInfo(provided_type, default,
                                     data.available_values, data.column_type)]

\* perform_create with the descriptor's type looked at before the Table's rows.
perform_create_TypeFirst(table_pk, data) ==
    IF ~\E t \in tables : t.id = table_pk THEN [err |-> "NotFound", info |-> data]
    ELSE IF ~has_value(data.type) THEN [err |-> "UnsupportedType", info |-> data]
    ELSE IF \E r \in rows : r.table = table_pk
         THEN [err |-> "ColumnsLocked", info |-> data]
    ELSE perform_create_descriptor(data)

\* ColumnViewSet.perform_create, run as one step.
perform_create(table_pk, data) ==
    IF perform_create_rows_check(table_pk) # "ok"
    THEN [err |-> perform_create_rows_check(table_pk), info |-> data]
    ELSE perform_create_descriptor(data)

\* POST /tables/{table_pk}/columns: perform_create, then serializer.save(),
\* which is Column.save(): full_clean, then the insert.
ColumnCreateResult(table_pk, name, data) ==
    LET pc == perform_create(table_pk, data)
        col == [id |-> nextId.column, name |-> name, info |-> pc.info,
                table |-> table_pk]
        e == IF pc.err # "ok" THEN pc.err ELSE Column_full_clean(columns, col)
    IN  [err |-> e,
         columns |-> IF e = "ok" THEN columns \cup {col} ELSE columns,
         next |-> IF e = "ok" THEN nextId.column + 1 ELSE nextId.column]

(***************************************************************************)
(* Value documents and the Row handlers of RowSerializer.                  *)
(*                                                                         *)
(* A Value's `info` document: whether it has the key "value", the literal  *)
(* under it, and whether it carries any other key.                         *)
(***************************************************************************)
ValueDoc(has, value, extra) == [has_value |-> has, value |-> value, extra |-> extra]

ColumnById(id) == CHOOSE c \in columns : c.id = id

\* Value.clean without validate_unique().
Value_full_clean_NoUnique(vals, v) ==
    IF ~v.info.has_value THEN "MissingValueKey"
    ELSE validate_value(ColumnById(v.column).info, v.info.value)

\* Value.clean, then validate_unique() for unique_together = ("column", "row"):
\* what Value.save() runs (full_clean) before the write.
Value_full_clean(vals, v) ==
    IF ~v.info.has_value THEN "MissingValueKey"
    ELSE LET e == validate_value(ColumnById(v.column).info, v.info.value)
         IN  IF e # "ok" THEN e
             ELSE IF \E w \in vals : w.id # v.id /\ w.column = v.column /\ w.row = v.row
                  THEN "UniqueConstraintViolation"
             ELSE "ok"

\* A transaction in progress: the rows and values as the transaction sees them,
\* the primary keys it has drawn, its outcome so far and the steps it has
\* taken ("check": a validation that passed, "fail": the one that did not,
\* "write": an INSERT or UPDATE).
BeginTx == [rows |-> rows, values |-> values, nextId |-> nextId,
            err |-> "ok", trace |-> <<>>]

Checked(tx) == [tx EXCEPT !.trace = Append(@, "check")]

Failed(tx, e) == [tx EXCEPT !.err = e, !.trace = Append(@, "fail")]

\* Value.objects.create(row=row, **value_data)
Value_create(tx, row_id, item) ==
    LET v == [id |-> tx.nextId.value, info |-> item.info,
              column |-> item.column, row |-> row_id]
        e == Value_full_clean(tx.values, v)
    IN  IF e # "ok" THEN Failed(tx, e)
        ELSE [tx EXCEPT !.values = @ \cup {v},
                        !.nextId.value = @ + 1,
                        !.trace = @ \o <<"check", "write">>]

\* RowSerializer.create, lines 66-68: the loop over values_data.
RECURSIVE CreateValues(_, _, _, _)
CreateValues(tx, row_id, items, i) ==
    IF i > Len(items) \/ tx.err # "ok" THEN tx
    ELSE LET item == items[i]
             \* value_data["info"]["value"] raises KeyError when the key is absent
             e == IF ~item.info.has_value THEN "KeyError"
                  ELSE validate_value(ColumnById(item.column).info, item.info.value)
             t2 == IF e # "ok" THEN Failed(tx, e)
                   ELSE Value_create(Checked(tx), row_id, item)
         IN  CreateValues(t2, row_id, items, i + 1)

\* RowSerializer.create without the comparison of the two counts.
RowSerializer_create_NoCountCheck(table_id, items) ==
    LET tx == BeginTx
        row == [id |-> tx.nextId.row, table |-> table_id]
    IN
    IF ~\E t \in tables : t.id = table_id THEN Failed(tx, "NotFound")
    ELSE CreateValues([tx EXCEPT !.rows = @ \cup {row},
                                 !.nextId.row = @ + 1,
                                 !.trace = @ \o <<"check", "write">>],
                      row.id, items, 1)

\* RowSerializer.create inside `with transaction.atomic()`.
RowSerializer_create(table_id, items) ==
    LET tx == BeginTx
        row == [id |-> tx.nextId.row, table |-> table_id]
    IN
    IF ~\E t \in tables : t.id = table_id THEN Failed(tx, "NotFound")
    ELSE IF Len(items) # Cardinality({c \in columns : c.table = table_id})
         THEN Failed(tx, "ColumnCountMismatch")
    ELSE CreateValues([tx EXCEPT !.rows = @ \cup {row},
                                 !.nextId.row = @ + 1,
                                 !.trace = @ \o <<"check", "write">>],
                      row.id, items, 1)

\* value.info = {"value": ...}; value.save()
Value_update(tx, old, literal) ==
    LET v == [old EXCEPT !.info = ValueDoc(TRUE, literal, FALSE)]
        e == Value_full_clean(tx.values, v)
    IN  IF e # "ok" THEN Failed(tx, e)
        ELSE [tx EXCEPT !.values = (@ \ {old}) \cup {v},
                        !.trace = @ \o <<"check", "write">>]

\* RowSerializer.update, lines 86-97: the loop over values_data.
RECURSIVE UpdateValues(_, _, _, _)
UpdateValues(tx, row_id, items, i) ==
    IF i > Len(items) \/ tx.err # "ok" THEN tx
    ELSE LET Linked == {v \in tx.values :
                            v.row = row_id /\ v.column = items[i].column}
             t2 == IF Linked = {} THEN Failed(tx, "UnknownColumnForRow")
                   ELSE LET value == CHOOSE v \in Linked : TRUE
                            e == IF ~items[i].info.has_value THEN "KeyError"
                                 ELSE validate_value(ColumnById(value.column).info,
                                                     items[i].info.value)
                        IN  IF e # "ok" THEN Failed(Checked(tx), e)
                            ELSE Value_update(Checked(Checked(tx)), value,
                                              items[i].info.value)
         IN  UpdateValues(t2, row_id, items, i + 1)

\* RowSerializer.update inside `with transaction.atomic()`; instance is the
\* Row and table_id the table_pk of the URL.
RowSerializer_update(instance, table_id, items) ==
    LET tx == BeginTx
    IN
    IF ~\E t \in tables : t.id = table_id THEN Failed(tx, "NotFound")
    ELSE IF Len(items) # Cardinality({c \in columns : c.table = table_id})
         THEN Failed(tx, "ColumnCountMismatch")
    ELSE IF table_id # instance.table THEN Failed(Checked(tx), "TableImmutable")
    ELSE LET done == UpdateValues(Checked(Checked(tx)), instance.id, items, 1)
         IN  IF done.err # "ok" THEN done
             ELSE [done EXCEPT !.trace = Append(@, "write")]

\* The block without the transaction: what it wrote before raising stays.
transaction_atomic_NoRollback(tx) == tx

\* `with transaction.atomic()`: the block's writes are committed when it ends
\* normally and rolled back when it raises.
transaction_atomic(tx) ==
    IF tx.err = "ok" THEN tx
    ELSE [tx EXCEPT !.rows = rows, !.values = values, !.nextId = nextId]

(***************************************************************************)
(* Cascading deletes: every ForeignKey is on_delete=models.CASCADE.        *)
(***************************************************************************)
TablesOf(dbs) == {t \in tables : t.database \in dbs}

ColumnsOf(tids) == {c \in columns : c.table \in tids}

RowsOf(tids) == {r \in rows : r.table \in tids}

\* Values that no deletion takes along.
ValuesOf_NoCascade(cids, rids) == {}

ValuesOf(cids, rids) == {v \in values : v.column \in cids \/ v.row \in rids}

Ids(objs) == {o.id : o \in objs}

(***************************************************************************)
(* The requests.  A request is received (Submit) and then handled; each    *)
(* handler runs to its end as one step.                                    *)
(***************************************************************************)
Request(op, database, table, pk, name, data, items) ==
    [op |-> op, database |-> database, table |-> table, pk |-> pk,
     name |-> name, data |-> data, items |-> items, search |-> <<>>]

NoData == Descriptor("", NoneLit, FALSE, "", FALSE, <<>>)

NoRequest == Request("none", 0, 0, 0, "", NoData, <<>>)

Outcome(op, err, trace) == [op |-> op, err |-> err, trace |-> trace]

\* GET /tables/{table_pk}/rows?search_string=...: the characters of the query
\* parameter travel in `search`.
ListRequest(table, search_string) ==
    [Request("list_rows", 0, table, 0, "", NoData, <<>>) EXCEPT !.search = search_string]

\* RowViewSet.get_queryset followed by list: the Rows of table_pk, and with a
\* non-empty search_string the join of these Rows with their Values filtered
\* by values__info__value = search_string, which yields a Row once for each
\* of its Values that matches.
RowViewSet_list(table_pk, search_string) ==
    LET queryset == {r \in rows : r.table = table_pk}
        Matches(r) == {v \in values : /\ v.row = r.id
                                      /\ v.info.has_value
                                      /\ v.info.value = StrLit(search_string)}
    IN  IF search_string = <<>>
        THEN [id \in Ids(queryset) |-> 1]
        ELSE [id \in Ids({r \in queryset : Matches(r) # {}}) |->
                 Cardinality(Matches(CHOOSE r \in queryset : r.id = id))]

Submit(req) ==
    /\ request' = req
    /\ pending' = TRUE
    /\ UNCHANGED <<store, last, served, probe, creating, listed>>

\* The handler of `op` takes the request in flight.
Handling(op) ==
    /\ pending
    /\ request.op = op
    /\ pending' = FALSE
    /\ served' = served + 1
    /\ request' = NoRequest
    /\ UNCHANGED <<probe, creating>>
    /\ listed' = IF op = "list_rows" THEN RowViewSet_list(request.table, request.search)
                  ELSE listed

\* POST /databases
DatabaseCreate ==
    /\ Handling("create_database")
    /\ databases' = databases \cup {nextId.database}
    /\ nextId' = [nextId EXCEPT !.database = @ + 1]
    /\ last' = Outcome("create_database", "ok", <<>>)
    /\ UNCHANGED <<tables, columns, rows, values>>

\* POST /databases/{database_pk}/tables: serializer.save(database_id=...);
\* the foreign key rejects a Database that does not exist.
TableCreate ==
    LET ok == request.database \in databases
    IN  /\ Handling("create_table")
        /\ tables' = IF ok
                     THEN tables \cup {[id |-> nextId.table,
                                        database |-> request.database]}
                     ELSE tables
        /\ nextId' = IF ok THEN [nextId EXCEPT !.table = @ + 1] ELSE nextId
        /\ last' = Outcome("create_table", IF ok THEN "ok" ELSE "NotFound", <<>>)
        /\ UNCHANGED <<databases, columns, rows, values>>

\* POST /tables/{table_pk}/columns
ColumnCreate ==
    LET res == ColumnCreateResult(request.table, request.name, request.data)
    IN  /\ Handling("create_column")
        /\ columns' = res.columns
        /\ nextId' = [nextId EXCEPT !.column = res.next]
        /\ last' = Outcome("create_column", res.err, <<>>)
        /\ UNCHANGED <<databases, tables, rows, values>>

\* POST /tables/{table_pk}/rows.  request.items is the validated `values`
\* list: each item names a stored Column (a primary-key field) and carries
\* an info document.
RowCreate ==
    LET tx == transaction_atomic(RowSerializer_create(request.table, request.items))
    IN  /\ Handling("create_row")
        /\ rows' = tx.rows
        /\ values' = tx.values
        /\ nextId' = tx.nextId
        /\ last' = Outcome("create_row", tx.err, tx.trace)
        /\ UNCHANGED <<databases, tables, columns>>

\* A row update that looks the Row up by its primary key alone and stores it
\* under the Table of the URL.
RowUpdate_MovesRow ==
    LET found == {r \in rows : r.id = request.pk}
    IN  /\ Handling("update_row")
        /\ rows' = {IF r \in found THEN [r EXCEPT !.table = request.table] ELSE r :
                        r \in rows}
        /\ last' = Outcome("update_row",
                           IF found = {} THEN "NotFound" ELSE "ok", <<>>)
        /\ UNCHANGED <<databases, tables, columns, values, nextId>>

\* PUT /tables/{table_pk}/rows/{pk}: get_object() looks the Row up in
\* get_queryset(), the Rows of table_pk.
RowUpdate ==
    LET found == {r \in rows : r.table = request.table /\ r.id = request.pk}
        tx == IF found = {} THEN [BeginTx EXCEPT !.err = "NotFound"]
              ELSE transaction_atomic(
                       RowSerializer_update(CHOOSE r \in found : TRUE,
                                            request.table, request.items))
    IN  /\ Handling("update_row")
        /\ rows' = tx.rows
        /\ values' = tx.values
        /\ nextId' = tx.nextId
        /\ last' = Outcome("update_row", tx.err, tx.trace)
        /\ UNCHANGED <<databases, tables, columns>>

\* DELETE /tables/{table_pk}/columns/{pk}: DestroyModelMixin on get_queryset().
ColumnDestroy ==
    LET found == {c \in columns : c.table = request.table /\ c.id = request.pk}
    IN  /\ Handling("delete_column")
        /\ columns' = columns \ found
        /\ values' = values \ ValuesOf(Ids(found), {})
        /\ last' = Outcome("delete_column",
                           IF found = {} THEN "NotFound" ELSE "ok", <<>>)
        /\ UNCHANGED <<databases, tables, rows, nextId>>

\* DELETE /tables/{table_pk}/rows/{pk}
RowDestroy ==
    LET found == {r \in rows : r.table = request.table /\ r.id = request.pk}
    IN  /\ Handling("delete_row")
        /\ rows' = rows \ found
        /\ values' = values \ ValuesOf({}, Ids(found))
        /\ last' = Outcome("delete_row",
                           IF found = {} THEN "NotFound" ELSE "ok", <<>>)
        /\ UNCHANGED <<databases, tables, columns, nextId>>

\* DELETE /databases/{database_pk}/tables/{pk}
TableDestroy ==
    LET found == {t \in tables :
                      t.database = request.database /\ t.id = request.pk}
        cs == ColumnsOf(Ids(found))
        rs == RowsOf(Ids(found))
    IN  /\ Handling("delete_table")
        /\ tables' = tables \ found
        /\ columns' = columns \ cs
        /\ rows' = rows \ rs
        /\ values' = values \ ValuesOf(Ids(cs), Ids(rs))
        /\ last' = Outcome("delete_table",
                           IF found = {} THEN "NotFound" ELSE "ok", <<>>)
        /\ UNCHANGED <<databases, nextId>>

\* DELETE /databases/{pk}
DatabaseDestroy ==
    LET found == databases \cap {request.pk}
        ts == TablesOf(found)
        cs == ColumnsOf(Ids(ts))
        rs == RowsOf(Ids(ts))
    IN  /\ Handling("delete_database")
        /\ databases' = databases \ found
        /\ tables' = tables \ ts
        /\ columns' = columns \ cs
        /\ rows' = rows \ rs
        /\ values' = values \ ValuesOf(Ids(cs), Ids(rs))
        /\ last' = Outcome("delete_database",
                           IF found = {} THEN "NotFound" ELSE "ok", <<>>)
        /\ UNCHANGED nextId

\* GET /tables/{table_pk}/rows
RowList ==
    /\ Handling("list_rows")
    /\ last' = Outcome("list_rows", "ok", <<>>)
    /\ UNCHANGED store

Handle ==
    \/ DatabaseCreate
    \/ TableCreate
    \/ ColumnCreate
    \/ RowCreate
    \/ RowUpdate
    \/ ColumnDestroy
    \/ RowDestroy
    \/ TableDestroy
    \/ DatabaseDestroy

(***************************************************************************)
(* The requests a client sends: primary keys it has been given, and        *)
(* descriptors, names and value documents from small sets.                 *)
(***************************************************************************)
ColumnNames == {"a", "b"}

\* Descriptors submitted to column creation: an int column without default,
\* an enum of ints, and a descriptor of an unsupported type.
IntDescriptor == Descriptor("int", NoneLit, FALSE, "", FALSE, <<>>)

EnumDescriptor == Descriptor("enum", NoneLit, TRUE, "int", TRUE, <<IntLit(0)>>)

BadDescriptor == Descriptor("text", NoneLit, FALSE, "", FALSE, <<>>)

Descriptors == {IntDescriptor, EnumDescriptor, BadDescriptor}

\* Value documents submitted in row requests.
Docs ==
    {ValueDoc(TRUE, IntLit(0), FALSE), ValueDoc(TRUE, IntLit(1), FALSE),
     ValueDoc(TRUE, StrLit(<<"a">>), FALSE), ValueDoc(FALSE, NoneLit, TRUE)}

\* A Table has at most one Column per name, so a longer `values` list than
\* this can only be a count mismatch.
MaxItems == Cardinality(ColumnNames)

\* The validated `values` lists: non-empty (allow_empty=False), every item
\* naming a stored Column.
Payloads ==
    UNION {[1..n -> [column : Ids(columns), info : Docs]] : n \in 1..MaxItems}

Issued(model) == 1..(nextId[model] - 1)

DatabaseRequests ==
    {Request("create_database", 0, 0, 0, "", NoData, <<>>)}
    \cup {Request("delete_database", 0, 0, d, "", NoData, <<>>) :
            d \in Issued("database")}

TableRequests ==
    {Request("create_table", d, 0, 0, "", NoData, <<>>) : d \in Issued("database")}
    \cup {Request("delete_table", d, 0, t, "", NoData, <<>>) :
            d \in Issued("database"), t \in Issued("table")}

ColumnRequests ==
    {Request("create_column", 0, t, 0, name, data, <<>>) :
        t \in Issued("table"), name \in ColumnNames, data \in Descriptors}
    \cup {Request("delete_column", 0, t, c, "", NoData, <<>>) :
            t \in Issued("table"), c \in Issued("column")}

RowRequests ==
    {Request("create_row", 0, t, 0, "", NoData, items) :
        t \in Issued("table"), items \in Payloads}
    \cup {Request("update_row", 0, t, r, "", NoData, items) :
            t \in Issued("table"), r \in Issued("row"), items \in Payloads}
    \cup {Request("delete_row", 0, t, r, "", NoData, <<>>) :
            t \in Issued("table"), r \in Issued("row")}

(***************************************************************************)
(* Spec: the API from the empty store.                                     *)
(***************************************************************************)
Init ==
    /\ EmptyStore
    /\ request = NoRequest
    /\ pending = FALSE
    /\ last = Idle
    /\ served = 0
    /\ probe = NoProbe
    /\ creating = NoCreation
    /\ listed = NoListing

Receive ==
    /\ ~pending
    /\ served < MaxRequests
    /\ \E req \in DatabaseRequests \cup TableRequests \cup ColumnRequests
                    \cup RowRequests : Submit(req)

Next == Receive \/ Handle

Spec == Init /\ [][Next]_vars

(***************************************************************************)
(* SpecRows: the API from a store that holds one Database, two Tables and  *)
(* their Columns: Table 1 with an int Column "a" and an enum Column "b",   *)
(* Table 2 with an int Column "a".                                         *)
(***************************************************************************)
StoreWithColumns ==
    /\ databases = {1}
    /\ tables = {[id |-> 1, database |-> 1], [id |-> 2, database |-> 1]}
    /\ columns =
          {[id |-> 1, name |-> "a", table |-> 1,
            info |-> PlainInfo("int", IntLit(0))],
           [id |-> 2, name |-> "b", table |-> 1,
            info |-> EnumInfo("enum", IntLit(0), <<IntLit(0)>>, "int")],
           [id |-> 3, name |-> "a", table |-> 2,
            info |-> PlainInfo("int", IntLit(0))]}
    /\ rows = {}
    /\ values = {}
    /\ nextId = [database |-> 2, table |-> 3, column |-> 4, row |-> 1, value |-> 1]

InitRows ==
    /\ StoreWithColumns
    /\ request = NoRequest
    /\ pending = FALSE
    /\ last = Idle
    /\ served = 0
    /\ probe = NoProbe
    /\ creating = NoCreation
    /\ listed = NoListing

ReceiveRows ==
    /\ ~pending
    /\ served < MaxRowRequests
    /\ \E req \in DatabaseRequests \cup TableRequests \cup ColumnRequests
                    \cup RowRequests : Submit(req)

NextRows == ReceiveRows \/ Handle

SpecRows == InitRows /\ [][NextRows]_vars

(***************************************************************************)
(* SpecColumn: column creations, with descriptors of every type and many   *)
(* defaults, on the store of SpecRows and on that store with one Row in    *)
(* Table 2.                                                                *)
(***************************************************************************)
StoreWithRow ==
    /\ databases = {1}
    /\ tables = {[id |-> 1, database |-> 1], [id |-> 2, database |-> 1]}
    /\ columns =
          {[id |-> 1, name |-> "a", table |-> 1,
            info |-> PlainInfo("int", IntLit(0))],
           [id |-> 2, name |-> "b", table |-> 1,
            info |-> EnumInfo("enum", IntLit(0), <<IntLit(0)>>, "int")],
           [id |-> 3, name |-> "a", table |-> 2,
            info |-> PlainInfo("int", IntLit(0))]}
    /\ rows = {[id |-> 1, table |-> 2]}
    /\ values = {[id |-> 1, info |-> ValueDoc(TRUE, IntLit(0), FALSE),
                  column |-> 3, row |-> 1]}
    /\ nextId = [database |-> 2, table |-> 3, column |-> 4, row |-> 2, value |-> 2]

\* The types a Column or the elements of an enum can have.
BaseTypes == {"int", "real", "char", "string", "email"}

\* data.get("type", "no_type_provided_error") of the submitted descriptors.
ProbeTypes == BaseTypes \cup {"text", "no_type_provided_error"}

ProbeDefaults ==
    {NoneLit, IntLit(0), IntLit(7), BoolLit(TRUE), FloatLit(0), FloatLit(35),
     StrLit(<<>>), StrLit(<<"a">>), StrLit(<<"a", "a">>),
     StrLit(<<"a", "@", "a", ".", "a", "a">>)}

PlainDescriptors ==
    {Descriptor(type, default, FALSE, "", FALSE, <<>>) :
        type \in ProbeTypes, default \in ProbeDefaults}

ColumnProbes ==
    {Request("create_column", 0, t, 0, name, data, <<>>) :
        t \in Issued("table"), name \in ColumnNames, data \in PlainDescriptors}

InitColumn ==
    /\ StoreWithColumns \/ StoreWithRow
    /\ request = NoRequest
    /\ pending = FALSE
    /\ last = Idle
    /\ served = 0
    /\ probe = NoProbe
    /\ creating = NoCreation
    /\ listed = NoListing

ReceiveColumn ==
    /\ ~pending
    /\ served < MaxColumnRequests
    /\ \E req \in ColumnProbes : Submit(req)

NextColumn == ReceiveColumn \/ ColumnCreate

SpecColumn == InitColumn /\ [][NextColumn]_vars

(***************************************************************************)
(* SpecEnum: creations of enum Columns, with and without a default, with   *)
(* empty and non-empty available_values and with every column_type, on the *)
(* stores of SpecColumn.                                                   *)
(***************************************************************************)
\* data["column_type"] of the submitted enum descriptors.
EnumColumnTypes == BaseTypes \cup {"enum", "text"}

EnumMembers == {IntLit(0), IntLit(1), StrLit(<<"a">>)}

\* data["available_values"]: the lists of at most two members.
EnumLists == UNION {[1..n -> EnumMembers] : n \in 0..2}

EnumDefaults == {NoneLit, IntLit(0), IntLit(7)}

EnumDescriptors ==
    {Descriptor("enum", default, TRUE, column_type, TRUE, available_values) :
        default \in EnumDefaults, column_type \in EnumColumnTypes,
        available_values \in EnumLists}
    \cup {Descriptor("enum", NoneLit, FALSE, "", TRUE, <<IntLit(0)>>),
          Descriptor("enum", NoneLit, TRUE, "int", FALSE, <<>>)}

EnumProbes ==
    {Request("create_column", 0, t, 0, name, data, <<>>) :
        t \in Issued("table"), name \in ColumnNames, data \in EnumDescriptors}

ReceiveEnum ==
    /\ ~pending
    /\ served < MaxColumnRequests
    /\ \E req \in EnumProbes : Submit(req)

NextEnum == ReceiveEnum \/ ColumnCreate

SpecEnum == InitColumn /\ [][NextEnum]_vars

(***************************************************************************)
(* SpecConc: two clients on the store of SpecRows.  One creates Rows; its  *)
(* handler runs in transaction.atomic() and is one step.  The other        *)
(* creates a Column; perform_create opens no transaction, so its queries   *)
(* (Table.objects.get and Row...exists()) and its insert are separate      *)
(* steps, and the first client's transaction can commit between them.      *)
(* The first client sends well-formed rows: one item for each Column the   *)
(* Table has when the request is sent.                                     *)
(***************************************************************************)
ColumnIdsOf(table_id) == {c.id : c \in {x \in columns : x.table = table_id}}

WellFormedPayloads(table_id) ==
    {items \in Payloads :
        /\ Len(items) = Cardinality(ColumnIdsOf(table_id))
        /\ {items[i].column : i \in 1..Len(items)} = ColumnIdsOf(table_id)}

InitConc ==
    /\ StoreWithColumns
    /\ request = NoRequest
    /\ pending = FALSE
    /\ last = Idle
    /\ served = 0
    /\ probe = NoProbe
    /\ creating = NoCreation
    /\ listed = NoListing

InFlight == (IF pending THEN 1 ELSE 0) + (IF creating.stage = "none" THEN 0 ELSE 1)

\* The first client sends a row creation.
ReceiveRowConc ==
    /\ ~pending
    /\ served + InFlight < MaxConcRequests
    /\ \E t \in Issued("table") : \E items \in WellFormedPayloads(t) :
          Submit(Request("create_row", 0, t, 0, "", NoData, items))

\* The second client sends a column creation.
ReceiveColumnConc ==
    /\ creating.stage = "none"
    /\ served + InFlight < MaxConcRequests
    /\ \E t \in Issued("table"), name \in ColumnNames, data \in Descriptors :
          creating' = [stage |-> "received", table |-> t, name |-> name,
                       data |-> data]
    /\ UNCHANGED <<store, request, pending, last, served, probe, listed>>

\* perform_create up to the check of the Table's rows.
ColumnCheckRows ==
    LET e == perform_create_rows_check(creating.table)
    IN  /\ creating.stage = "received"
        /\ IF e = "ok"
           THEN /\ creating' = [creating EXCEPT !.stage = "checked"]
                /\ UNCHANGED <<last, served>>
           ELSE /\ creating' = NoCreation
                /\ last' = Outcome("create_column", e, <<>>)
                /\ served' = served + 1
        /\ UNCHANGED <<store, request, pending, probe, listed>>

\* The rest of perform_create, after the check of the Table's rows has
\* passed: the descriptor's checks and serializer.save().
ColumnInsert ==
    LET pc == perform_create_descriptor(creating.data)
        col == [id |-> nextId.column, name |-> creating.name, info |-> pc.info,
                table |-> creating.table]
        e == IF pc.err # "ok" THEN pc.err ELSE Column_full_clean(columns, col)
    IN  /\ creating.stage = "checked"
        /\ creating' = NoCreation
        /\ columns' = IF e = "ok" THEN columns \cup {col} ELSE columns
        /\ nextId' = IF e = "ok" THEN [nextId EXCEPT !.column = @ + 1] ELSE nextId
        /\ last' = Outcome("create_column", e, <<>>)
        /\ served' = served + 1
        /\ UNCHANGED <<databases, tables, rows, values, request, pending, probe,
                       listed>>

NextConc ==
    \/ ReceiveRowConc
    \/ ReceiveColumnConc
    \/ ColumnCheckRows
    \/ ColumnInsert
    \/ RowCreate

SpecConc == InitConc /\ [][NextConc]_vars

(***************************************************************************)
(* SpecKinds: row creations and row updates whose literals are of every    *)
(* JSON kind, on the store of SpecRows (Column 2 is an enum of the int 0). *)
(* Every request names each Column of its Table once; one of the documents *)
(* carries a key beside "value".                                           *)
(***************************************************************************)
\* {"value": literal} for literals of every kind, and one document that has
\* another key beside "value".
KindDocs ==
    {ValueDoc(TRUE, literal, FALSE) :
        literal \in {IntLit(0), IntLit(1), FloatLit(0), FloatLit(10),
                     BoolLit(FALSE), BoolLit(TRUE), StrLit(<<"a">>)}}
    \cup {ValueDoc(TRUE, IntLit(0), TRUE)}

KindPayloads(table_id) ==
    {items \in [1..Cardinality(ColumnIdsOf(table_id)) ->
                    [column : ColumnIdsOf(table_id), info : KindDocs]] :
        {items[i].column : i \in 1..Len(items)} = ColumnIdsOf(table_id)}

KindRequests ==
    UNION {{Request("create_row", 0, t, 0, "", NoData, items) :
                items \in KindPayloads(t)}
           \cup {Request("update_row", 0, t, r, "", NoData, items) :
                    r \in Issued("row"), items \in KindPayloads(t)} :
           t \in Issued("table")}

InitKinds ==
    /\ StoreWithColumns
    /\ request = NoRequest
    /\ pending = FALSE
    /\ last = Idle
    /\ served = 0
    /\ probe = NoProbe
    /\ creating = NoCreation
    /\ listed = NoListing

ReceiveKinds ==
    /\ ~pending
    /\ served < MaxKindRequests
    /\ \E req \in KindRequests : Submit(req)

NextKinds == ReceiveKinds \/ RowCreate \/ RowUpdate

SpecKinds == InitKinds /\ [][NextKinds]_vars

(***************************************************************************)
(* SpecSearch: row creations and searches on a store with string Columns:  *)
(* Table 1 with the Columns "a" and "b", Table 2 with the Column "a".      *)
(***************************************************************************)
StoreWithStrings ==
    /\ databases = {1}
    /\ tables = {[id |-> 1, database |-> 1], [id |-> 2, database |-> 1]}
    /\ columns =
          {[id |-> 1, name |-> "a", table |-> 1,
            info |-> PlainInfo("string", StrLit(<<>>))],
           [id |-> 2, name |-> "b", table |-> 1,
            info |-> PlainInfo("string", StrLit(<<>>))],
           [id |-> 3, name |-> "a", table |-> 2,
            info |-> PlainInfo("string", StrLit(<<>>))]}
    /\ rows = {}
    /\ values = {}
    /\ nextId = [database |-> 2, table |-> 3, column |-> 4, row |-> 1, value |-> 1]

\* The strings stored and searched for: "a", "aa" and "".
SearchStrings == {<<"a">>, <<"a", "a">>, <<>>}

StringPayloads(table_id) ==
    {items \in [1..Cardinality(ColumnIdsOf(table_id)) ->
                    [column : ColumnIdsOf(table_id),
                     info : {ValueDoc(TRUE, StrLit(str), FALSE) :
                                str \in SearchStrings}]] :
        {items[i].column : i \in 1..Len(items)} = ColumnIdsOf(table_id)}

SearchRequests ==
    UNION {{Request("create_row", 0, t, 0, "", NoData, items) :
                items \in StringPayloads(t)}
           \cup {ListRequest(t, str) : str \in SearchStrings} :
           t \in Issued("table")}

InitSearch ==
    /\ StoreWithStrings
    /\ request = NoRequest
    /\ pending = FALSE
    /\ last = Idle
    /\ served = 0
    /\ probe = NoProbe
    /\ creating = NoCreation
    /\ listed = NoListing

ReceiveSearch ==
    /\ ~pending
    /\ served < MaxSearchRequests
    /\ \E req \in SearchRequests : Submit(req)

NextSearch == ReceiveSearch \/ RowCreate \/ RowList

SpecSearch == InitSearch /\ [][NextSearch]_vars

(***************************************************************************)
(* SpecValidate: Column.ColumnTypes.validate called on every base type and *)
(* every candidate.                                                        *)
(***************************************************************************)
Strings == UNION {[1..len -> Alphabet] : len \in 0..MaxStrLen}

Candidates ==
    {IntLit(0), IntLit(1), BoolLit(TRUE), BoolLit(FALSE), FloatLit(0),
     FloatLit(35), NoneLit} \cup {StrLit(s) : s \in Strings}

InitValidate ==
    /\ EmptyStore
    /\ last = Idle
    /\ request = NoRequest
    /\ pending = FALSE
    /\ served = 0
    /\ probe \in [column_type : BaseTypes, value : Candidates]
    /\ creating = NoCreation
    /\ listed = NoListing

CallValidate ==
    /\ last.op = "idle"
    /\ last' = [op |-> "validate",
                err |-> ColumnTypes_validate(probe.column_type, probe.value),
                trace |-> <<>>]
    /\ UNCHANGED <<store, request, pending, served, probe, creating, listed>>

NextValidate == CallValidate

SpecValidate == InitValidate /\ [][NextValidate]_vars

\* The email pattern as the specification writes it, with [A-Za-z]{2,} for
\* the top-level part.
EmailPatternOfSpec(s) ==
    /\ Len(s) > 0
    /\ IsWordChar(s[1])
    /\ IsWordChar(s[Len(s)])
    /\ \E i \in 2..Len(s), j \in 2..Len(s) :
          /\ i + 1 < j
          /\ j + 2 <= Len(s)
          /\ s[i] = "@"
          /\ s[j] = "."
          /\ \A p \in 1..(i - 1) : InLocalClass(s[p])
          /\ \A p \in (i + 1)..(j - 1) : InDomainClass(s[p])
          /\ \A p \in (j + 1)..Len(s) : s[p] \in Letters

\* What C9 says the literal check accepts.
C9_Accepts(base_type, c) ==
    CASE base_type = "int" -> c.k = "int"
      [] base_type = "real" -> c.k = "float"
      [] base_type = "char" -> c.k = "str" /\ Len(c.s) = 1
      [] base_type = "string" -> c.k = "str"
      [] base_type = "email" -> c.k = "str" /\ EmailPatternOfSpec(c.s)

\* C9: for every base type and every candidate, validate accepts exactly the
\* candidates the specification lists for that type, and every rejection is the
\* TypeMismatch validation error, never another kind of failure.
C9_ValidateAsSpecified ==
    last.op = "validate" =>
        /\ last.err \in {"ok", "TypeMismatch"}
        /\ (last.err = "ok") <=> C9_Accepts(probe.column_type, probe.value)

(***************************************************************************)
(* Properties of the store and of the handlers.                            *)
(***************************************************************************)
Unchanged(x) == x' = x

ColumnIdsOfRow(r) == {v.column : v \in {w \in values : w.row = r.id}}

WritesIn(trace) == Cardinality({i \in 1..Len(trace) : trace[i] = "write"})

\* The value check of a Column's stored descriptor, in the words of the specification: the
\* base-type check for a non-enum column, membership in available_values for
\* an enum column.
AcceptedBy(info, value) ==
    IF info.type # "enum" THEN ColumnTypes_validate(info.type, value) = "ok"
    ELSE \E i \in 1..Len(info.available_values) :
            PyEq(value, info.available_values[i])

\* C1: every stored Row has Values for exactly the Columns of its own Table.
C1_RowColumnsMatchTable ==
    \A r \in rows : ColumnIdsOfRow(r) = Ids(ColumnsOf({r.table}))

\* C2: every stored Value has a `value` entry that its own Column's stored
\* descriptor accepts.
C2_ValuesConform ==
    \A v \in values :
        /\ v.info.has_value
        /\ \E c \in columns : c.id = v.column /\ AcceptedBy(c.info, v.info.value)

\* A Value is stored in an enum Column and another in a plain Column, after a
\* row update that succeeded.
C2_Witness ==
    /\ last.op = "update_row"
    /\ last.err = "ok"
    /\ \E v \in values : ColumnById(v.column).info.type = "enum"
    /\ \E v \in values : ColumnById(v.column).info.type = "int"

\* An item of a `values` list whose literal its Column does not accept.
InvalidItem(item) ==
    \/ ~item.info.has_value
    \/ ~AcceptedBy(ColumnById(item.column).info, item.info.value)

\* C3: a row creation in which any submitted Value fails validation, and any
\* row creation that fails, leaves the stored Rows and Values (and the rest
\* of the store) as they were.
C3_CreateAllOrNothing ==
    [][(/\ pending
        /\ request.op = "create_row"
        /\ \/ last'.err # "ok"
           \/ \E i \in 1..Len(request.items) : InvalidItem(request.items[i]))
       => /\ last'.err # "ok"
          /\ Unchanged(<<databases, tables, columns, rows, values>>)]_vars

\* A row creation failed at a Value after the Row and an earlier Value of the
\* same submission had been written.
C3_Witness ==
    /\ last.op = "create_row"
    /\ last.err \in {"TypeMismatch", "NotInEnum"}
    /\ WritesIn(last.trace) >= 2

\* C4: column creation on a Table that has a Row fails with ColumnsLocked,
\* whatever the descriptor, and leaves the Columns as they were.
C4_ColumnsLocked ==
    [][(/\ pending
        /\ request.op = "create_column"
        /\ \E r \in rows : r.table = request.table)
       => /\ last'.err = "ColumnsLocked"
          /\ Unchanged(columns)]_vars

C4_Witness ==
    /\ last.op = "create_column"
    /\ last.err = "ColumnsLocked"
    /\ rows # {}

\* C6: while a Table has a Row (before and after a step), the step leaves the
\* Table's Columns, descriptors included, as they were.
C6_ColumnsWriteOnce ==
    [][\A t \in tables :
          (/\ \E r \in rows : r.table = t.id
           /\ \E r \in rows' : r.table = t.id)
          => {c \in columns' : c.table = t.id} = {c \in columns : c.table = t.id}]_vars

LinkedTo(row_id, item) ==
    \E v \in values : v.row = row_id /\ v.column = item.column

\* C7: a row update that fails leaves every Value (and Row) as it was; and an
\* update whose list has the Table's column count fails with
\* UnknownColumnForRow when the first item that is not in order names a
\* Column the Row has no Value for.
C7_UpdateAllOrNothing ==
    [][(pending /\ request.op = "update_row")
       => /\ last'.err # "ok" => Unchanged(<<rows, values>>)
          /\ (/\ \E r \in rows : r.id = request.pk /\ r.table = request.table
              /\ Len(request.items) = Cardinality(ColumnsOf({request.table}))
              /\ \E i \in 1..Len(request.items) :
                    /\ ~LinkedTo(request.pk, request.items[i])
                    /\ \A j \in 1..(i - 1) :
                          /\ LinkedTo(request.pk, request.items[j])
                          /\ ~InvalidItem(request.items[j]))
             => /\ last'.err = "UnknownColumnForRow"
                /\ Unchanged(<<rows, values>>)]_vars

\* A row update failed on a Column the Row has no Value for, after the Value
\* of an earlier item had been overwritten.
C7_Witness ==
    /\ last.op = "update_row"
    /\ last.err = "UnknownColumnForRow"
    /\ WritesIn(last.trace) >= 1

\* C8: in a row creation or row update, no write comes before a validation.
C8_ValidateBeforeWrite ==
    last.op \in {"create_row", "update_row"} =>
        \A i \in 1..Len(last.trace), j \in 1..Len(last.trace) :
            i < j => ~(last.trace[i] = "write" /\ last.trace[j] \in {"check", "fail"})

\* The builtin defaults as the specification lists them.
C10_Builtin(type) ==
    CASE type = "int" -> IntLit(0)
      [] type = "real" -> FloatLit(0)
      [] type = "char" -> StrLit(<<"_">>)
      [] type = "string" -> StrLit(<<>>)
      [] type = "email" ->
            StrLit(<<"d", "e", "f", "a", "u", "l", "t", "@",
                     "d", "e", "f", "a", "u", "l", "t", ".", "c", "o", "m">>)

\* A non-enum descriptor is creatable: its type is one of the recognised
\* types and its default is omitted or passes the literal check of the type.
C10_Creatable(data) ==
    /\ data.type \in {"int", "real", "char", "string", "email"}
    /\ \/ data.default = NoneLit
       \/ ColumnTypes_validate(data.type, data.default) = "ok"

\* What a step that handles a non-enum column creation on a Table without
\* Rows must do: succeed exactly when the descriptor is creatable, and then
\* store the descriptor with the given default, or the builtin one when the
\* default is omitted.
C10_Outcome ==
    /\ (last'.err = "ok") <=> C10_Creatable(request.data)
    /\ last'.err = "ok" =>
          columns' = columns \cup
             {[id |-> nextId.column, name |-> request.name, table |-> request.table,
               info |-> PlainInfo(request.data.type,
                                  IF request.data.default = NoneLit
                                  THEN C10_Builtin(request.data.type)
                                  ELSE request.data.default)]}
    /\ last'.err # "ok" => columns' = columns

C10_Case ==
    /\ pending
    /\ request.op = "create_column"
    /\ request.data.type # "enum"
    /\ \E t \in tables : t.id = request.table
    /\ ~\E r \in rows : r.table = request.table

NameIsFree ==
    ~\E c \in columns : c.table = request.table /\ c.name = request.name

C11_Creatable(data) ==
    /\ data.column_type \in {"int", "real", "char", "string", "email"}
    /\ \A i \in 1..Len(data.available_values) :
          ColumnTypes_validate(data.column_type, data.available_values[i]) = "ok"

\* C11: an enum descriptor submitted, under a name the Table does not use, to
\* a Table without Rows is created if and only if it is creatable.
C11_EnumCreatableIff ==
    [][(/\ pending
        /\ request.op = "create_column"
        /\ request.data.type = "enum"
        /\ request.data.has_column_type
        /\ request.data.has_available_values
        /\ \E t \in tables : t.id = request.table
        /\ ~\E r \in rows : r.table = request.table
        /\ NameIsFree)
       => /\ (last'.err = "ok") <=> C11_Creatable(request.data)
          /\ (last'.err = "ok") <=> (columns' # columns)]_vars

ExactMember(item) ==
    \E i \in 1..Len(ColumnById(item.column).info.available_values) :
        ColumnById(item.column).info.available_values[i] = item.info.value

EnumItems(items) ==
    {i \in 1..Len(items) : ColumnById(items[i].column).info.type = "enum"}

\* C13: a row creation or row update succeeds only if the literal submitted
\* for each enum Column is exactly equal to a member of its available_values,
\* and it fails with NotInEnum only if some such literal is not.
C13_EnumExactEquality ==
    [][(pending /\ request.op \in {"create_row", "update_row"})
       => /\ last'.err = "ok" =>
                \A i \in EnumItems(request.items) : ExactMember(request.items[i])
          /\ last'.err = "NotInEnum" =>
                \E i \in EnumItems(request.items) : ~ExactMember(request.items[i])]_vars

C15_SearchExact ==
    [][(pending /\ request.op = "list_rows" /\ request.search # <<>>)
       => listed' =
             [id \in {r.id : r \in {x \in rows :
                         /\ x.table = request.table
                         /\ \E v \in values :
                               /\ v.row = x.id
                               /\ v.info.has_value
                               /\ v.info.value = StrLit(request.search)}} |-> 1]]_vars

\* C16: a row update of a Row that has Values for exactly the Columns of its
\* Table succeeds only if the Columns its items name are exactly the Columns
\* the Row has Values for.
C16_UpdateColumnSetExact ==
    [][(/\ pending
        /\ request.op = "update_row"
        /\ last'.err = "ok"
        /\ \A r \in rows : ColumnIdsOfRow(r) = Ids(ColumnsOf({r.table})))
       => {request.items[i].column : i \in 1..Len(request.items)}
             = {v.column : v \in {w \in values : w.row = request.pk}}]_vars

\* C17: a row update that succeeds creates and deletes no Value, leaves the
\* Row and the Column of every Value as they were, and leaves the keys other
\* than "value" of every Value's document as they were.
C17_UpdateOnlyValueEntry ==
    [][(pending /\ request.op = "update_row" /\ last'.err = "ok")
       => /\ {<<v.id, v.row, v.column>> : v \in values'}
                = {<<v.id, v.row, v.column>> : v \in values}
          /\ \A v \in values : \A w \in values' :
                w.id = v.id => w.info.extra = v.info.extra]_vars

\* C18: a Row's Table never changes: a step that handles a row update either
\* refuses, with TableImmutable, a target Table that is not the Row's, or
\* leaves every Row in its Table.
C18_RowTableImmutable ==
    [][(pending /\ request.op = "update_row")
       => \/ /\ \E r \in rows : r.id = request.pk /\ r.table # request.table
             /\ last'.err = "TableImmutable"
             /\ Unchanged(rows)
          \/ \A r \in rows : \A q \in rows' : q.id = r.id => q.table = r.table]_vars

\* A row update named a Table that is not the Row's: the only Row ever
\* created is stored, and the update did not find it under the Table named.
C18_Witness ==
    /\ last.op = "update_row"
    /\ last.err = "NotFound"
    /\ nextId.row = 2
    /\ \E r \in rows : r.id = 1

\* No two Values have the same Column and the same Row.
UniquePairs(vals) ==
    \A v \in vals : \A w \in vals :
        (v.column = w.column /\ v.row = w.row) => v.id = w.id

NamesAColumnTwice(items) ==
    \E i \in 1..Len(items) : \E j \in 1..Len(items) :
        i # j /\ items[i].column = items[j].column

\* C19: no step stores two Values with the same Column and Row, and a row
\* creation whose items name a Column twice fails and leaves the store as it
\* was.
C19_UniqueColumnRow ==
    [][/\ UniquePairs(values')
       /\ (pending /\ request.op = "create_row" /\ NamesAColumnTwice(request.items))
          => /\ last'.err # "ok"
             /\ Unchanged(<<databases, tables, columns, rows, values>>)]_vars

\* A row creation was refused at the second Value of a Column, after the Row
\* and the first Value had been written.
C19_Witness ==
    /\ last.op = "create_row"
    /\ last.err = "UniqueConstraintViolation"
    /\ WritesIn(last.trace) >= 2

\* Every Table references a stored Database, every Column and Row a stored
\* Table, every Value a stored Row and a stored Column.
NoOrphans(dbs, tbls, cols, rws, vals) ==
    /\ \A t \in tbls : t.database \in dbs
    /\ \A c \in cols : c.table \in Ids(tbls)
    /\ \A r \in rws : r.table \in Ids(tbls)
    /\ \A v \in vals : v.row \in Ids(rws) /\ v.column \in Ids(cols)

\* C20: after the deletion of a Database, Table, Column or Row no stored
\* object references an object that is not stored.
C20_CascadeLeavesNoOrphan ==
    [][(/\ pending
        /\ request.op \in {"delete_database", "delete_table", "delete_column",
                           "delete_row"})
       => NoOrphans(databases', tables', columns', rows', values')]_vars

\* A Table was deleted, and the Values that had been stored went with it.
C20_Witness ==
    /\ last.op = "delete_table"
    /\ last.err = "ok"
    /\ nextId.value > 1
    /\ values = {}

====
